---- MODULE Spec2Model ----
(***************************************************************************)
(* Streaming chat relay of deep-agent.                                     *)
(*                                                                         *)
(*   relay server : src/src/app/api/chat/route.ts   (POST)                 *)
(*   client hook  : src/unnamed/part_001            (useChat)              *)
(*                                                                         *)
(* SpecServer runs one POST request of the relay from admission to the end *)
(* of its response stream.  SpecClient runs one useChat session: the UI    *)
(* calls sendMessage / retry / clearMessages, the transport answers, React *)
(* re-renders.  Both share the frame encoder buildSSEMessage.              *)
(***************************************************************************)
EXTENDS Integers, Sequences, FiniteSets, TLC

(***************************************************************************)
(* Bounds of the model.                                                    *)
(***************************************************************************)
MaxUpstream == 3      \* chunks the upstream token source yields per request
MaxFrags == 2         \* content frames in a response stream read by the client
MaxRequests == 2      \* requests side by side in one client session
RetryRequests == 3    \* requests dispatched in a session with retries
RetryAnswered == 1    \* requests of such a session the transport answers
SessionFrags == 1     \* content frames of a stream in a session of several requests
MaxRetryCalls == 4
MaxMalformed == 1    \* retry() calls that pass the exhaustion guard

(***************************************************************************)
(* Program constants.                                                      *)
(***************************************************************************)
DefaultMaxRetries == 3

Null == "null"

(***************************************************************************)
(* Wire frames (SSEMessage) and the frame encoder.                         *)
(* A frame id is requestId, `${requestId}-${n}`, `${requestId}-done` or    *)
(* `${requestId}-error`: kept as the triple (rid, seq, tag).               *)
(***************************************************************************)
Frags == {"a", "b"}

FrameId(rid, seq, tag) == [rid |-> rid, seq |-> seq, tag |-> tag]

Frame(type, data, id) == [type |-> type, data |-> data, id |-> id]

\* The text of one record is cut into the pieces a transport read can
\* separate: the field marker "data: ", the JSON text in two parts (a cut
\* anywhere inside it leaves two parts neither of which is JSON), and the two
\* newlines that end the record.
Tok(k, f) == [k |-> k, f |-> f]
NoFrame == Frame("none", "", FrameId(0, 0, ""))
PFX == Tok("data: ", NoFrame)
NL == Tok("\\n", NoFrame)
JsonHead(f) == Tok("json-head", f)
JsonTail(f) == Tok("json-tail", f)
\* a record body that is not JSON at all
Junk == Tok("junk", NoFrame)

buildSSEMessage(type, data, id) ==
  LET f == Frame(type, data, id)
  IN  <<PFX, JsonHead(f), JsonTail(f), NL, NL>>


(***************************************************************************)
(* State.                                                                  *)
(***************************************************************************)
VARIABLES
  \* ---- relay server: one POST request (route.ts) ----
  sPhase,          \* "idle" | "responded" (JSON answer) | "streaming" | "ended"
  sHttp,           \* HTTP status of the response, 0 while there is none
  sFrames,         \* frames passed to controller.enqueue, in order
  sClosed,         \* controller.close() was called
  sCancelled,      \* the consumer cancelled the response stream
  sStartFailed,    \* an exception escaped start()
  sMetrics,        \* metrics.messageCount, metrics.errorCount
  sLogs,           \* records written by logPerformanceMetrics
  sBodyRead,       \* req.json() was awaited
  sUpstream,       \* "none" | "open" | "ended" | "failed" | "released"
  sChunks,         \* upstream chunks consumed so far
  sReq,            \* history: the request POST was called with
  sFragments       \* history: the string fragments taken from the upstream

srvVars == <<sPhase, sHttp, sFrames, sClosed, sCancelled, sStartFailed,
             sMetrics, sLogs, sBodyRead, sUpstream, sChunks, sReq,
             sFragments>>

VARIABLES
  \* ---- client session: one useChat hook (part_001) ----
  messages,            \* `messages` state with every processed update applied
  pending,             \* setMessages updates queued for the next render
  dirty,               \* the hook has state updates the last render has not seen
  isLoading,           \* state values after the latest set call
  error,
  retryCount,
  connectionStatus,
  rMessages,           \* values the last render gave to sendMessage / retry
  rIsLoading,
  rRetryCount,
  streamingMessageRef, \* NoRef or [index, requestId]
  lastPayloadRef,
  maxRetries,          \* options.maxRetries, 0 when unset or zero
  reqs,                \* the requests dispatched so far, in order
  statusTrail,         \* history: connectionStatus before the last step and
                       \* each value the step changed it to, in order
  staleWrites,         \* history: content frames that changed a message while
                       \* the pointer named another request, as (frame, pointer)
  lastCall             \* history: the operation the last step ran

cliVars == <<messages, pending, dirty, isLoading, error, retryCount,
             connectionStatus, rMessages, rIsLoading, rRetryCount,
             streamingMessageRef, lastPayloadRef, maxRetries, reqs,
             statusTrail, staleWrites, lastCall>>

vars == <<srvVars, cliVars>>

(***************************************************************************)
(* Relay server, route.ts.                                                 *)
(***************************************************************************)
BaseOrigins == {"https://intranet.bank.local"}
DevOrigins == {"http://localhost:3000", "http://127.0.0.1:3000",
               "http://localhost:3001", "http://127.0.0.1:3001"}

\* allowedOrigins of POST; envOrigins is the parsed ALLOWED_ORIGINS list
AllowedOrigins(nodeEnv, envOrigins) ==
  BaseOrigins \cup envOrigins
    \cup (IF nodeEnv # "production" THEN DevOrigins ELSE {})

\* the origin check switched off outside production
OriginRejectedDevOpen(origin, nodeEnv, envOrigins) ==
  /\ origin # Null
  /\ origin # ""
  /\ nodeEnv = "production"
  /\ origin \notin AllowedOrigins(nodeEnv, envOrigins)

\* `origin && !allowedOrigins.includes(origin)`: null and "" are falsy
OriginRejected(origin, nodeEnv, envOrigins) ==
  /\ origin # Null
  /\ origin # ""
  /\ origin \notin AllowedOrigins(nodeEnv, envOrigins)

FallbackUserId == "dev-user"
FallbackTenantId == "dev-tenant"

\* the development default used in production as well
ResolveIdentityAlwaysFallback(header, nodeEnv, fallback) ==
  IF header # Null THEN header ELSE fallback

\* `header ?? (isProduction ? null : fallback)`
ResolveIdentity(header, nodeEnv, fallback) ==
  IF header # Null THEN header
  ELSE IF nodeEnv = "production" THEN Null ELSE fallback

\* `!userId || !tenantId`
IdentityMissing(hUser, hTenant, nodeEnv) ==
  LET userId == ResolveIdentity(hUser, nodeEnv, FallbackUserId)
      tenantId == ResolveIdentity(hTenant, nodeEnv, FallbackTenantId)
  IN  userId \in {Null, ""} \/ tenantId \in {Null, ""}

\* normalizeProviderName of lib/providers/types: an absent name gives the
\* default provider, a known name itself, any other name throws.
KnownProviders == {"openai", "qwen"}
normalizeProviderName(name) ==
  IF name = Null THEN "openai"
  ELSE IF name \in KnownProviders THEN name ELSE "throws"

\* resolveProvider(requestedProvider); envProvider is process.env.PROVIDER,
\* Null when it is not set
resolveProvider(provider, envProvider) ==
  IF provider # Null /\ provider # "" THEN normalizeProviderName(provider)
  ELSE normalizeProviderName(envProvider)

\* `body.messages ?? []`
BodyMessages(body) == IF body.hasMessages THEN body.messages ELSE <<>>

\* `!messages.length || !messages[messages.length - 1]?.content`
InvalidMessages(msgs) ==
  \/ Len(msgs) = 0
  \/ msgs[Len(msgs)].content \in {Null, ""}

\* the record logPerformanceMetrics prints
Telemetry(metrics, err) ==
  [messageCount |-> metrics.messageCount, errorCount |-> metrics.errorCount,
   error |-> err]

ServerRid == 1

MetadataFrame == Frame("metadata", "meta", FrameId(ServerRid, 0, ""))
\* the `content` frames numbered from 0
ContentFrameFromZero(token, n) ==
  Frame("content", token, FrameId(ServerRid, n - 1, "n"))

ContentFrame(token, n) == Frame("content", token, FrameId(ServerRid, n, "n"))
DoneFrame == Frame("done", "", FrameId(ServerRid, 0, "done"))
ErrorFrame(msg) == Frame("error", msg, FrameId(ServerRid, 0, "error"))

\* what POST can be given
SrvOrigins == {Null, "", "https://intranet.bank.local", "http://localhost:3000",
               "https://app.example", "https://evil.example"}
SrvEnvOrigins == {{}, {"https://app.example"}}
SrvNodeEnvs == {"production", "development"}
SrvHeaders == {Null, "", "id-1"}
SrvMsg(c) == [role |-> "user", content |-> c]
SrvMessages == {<<>>, <<SrvMsg("")>>, <<SrvMsg(Null)>>, <<SrvMsg("Hello!")>>,
                <<SrvMsg(""), SrvMsg("Hello!")>>, <<SrvMsg("Hello!"), SrvMsg("")>>}
SrvProviders == {Null, "qwen", "bogus"}
SrvEnvProviders == {Null, "qwen", "bogus"}
\* a body that is not JSON; the JSON text `null`; bodies with a messages
\* array; bodies without one
SrvBodies == [json : {FALSE}, isNull : {FALSE}, hasMessages : {FALSE},
              messages : {<<>>}, provider : {Null}]
               \cup [json : {TRUE}, isNull : {TRUE}, hasMessages : {FALSE},
                     messages : {<<>>}, provider : {Null}]
               \cup [json : {TRUE}, isNull : {FALSE}, hasMessages : {TRUE},
                     messages : SrvMessages, provider : SrvProviders]
               \cup [json : {TRUE}, isNull : {FALSE}, hasMessages : {FALSE},
                     messages : {<<>>}, provider : SrvProviders]
\* chatCompletionStream: resolves, or throws (no API key, provider rejects)
SrvUpstreamOpens == {"ok", "throws"}
\* what the upstream iterator can throw: an Error, or a value that is none
UpstreamErrors == {[isError |-> TRUE, message |-> "boom"],
                   [isError |-> FALSE, message |-> Null]}

\* no request yet
NoRequest ==
  [origin |-> Null, nodeEnv |-> "", envOrigins |-> {}, hUser |-> Null,
   hTenant |-> Null, envProvider |-> Null,
   body |-> [json |-> FALSE, isNull |-> FALSE, hasMessages |-> FALSE,
             messages |-> <<>>, provider |-> Null],
   upOpen |-> ""]

SrvRespond(status, bodyRead, upstream, metrics, logs) ==
  /\ sPhase' = "responded"
  /\ sHttp' = status
  /\ sBodyRead' = bodyRead
  /\ sUpstream' = upstream
  /\ sMetrics' = metrics
  /\ sLogs' = logs
  /\ UNCHANGED <<sFrames, sClosed, sCancelled, sStartFailed, sChunks>>

\* the outer catch answered by opening a stream that holds an `error` frame
OuterCatchErrorFrame(upstream, metrics, text) ==
  /\ sPhase' = "ended"
  /\ sHttp' = 200
  /\ sBodyRead' = TRUE
  /\ sUpstream' = upstream
  /\ sMetrics' = metrics
  /\ sLogs' = <<Telemetry(metrics, text)>>
  /\ sFrames' = <<ErrorFrame(text)>>
  /\ sClosed' = TRUE
  /\ UNCHANGED <<sCancelled, sStartFailed, sChunks>>

\* the outer catch of POST: the error is logged and answered with a JSON
\* body and status 500
OuterCatch(upstream, metrics, text) ==
  SrvRespond(500, TRUE, upstream, metrics, <<Telemetry(metrics, text)>>)

\* POST up to the return of its Response; start() of the ReadableStream runs
\* inside the constructor up to its first await, so `metadata` is enqueued here.
POST(origin, nodeEnv, envOrigins, hUser, hTenant, envProvider, body, upOpen) ==
  /\ sPhase = "idle"
  /\ UNCHANGED sFragments
  /\ sReq' = [origin |-> origin, nodeEnv |-> nodeEnv, envOrigins |-> envOrigins,
              hUser |-> hUser, hTenant |-> hTenant,
              envProvider |-> envProvider, body |-> body,
              upOpen |-> upOpen]
  /\ LET m0 == [messageCount |-> 0, errorCount |-> 0]
         m1 == [m0 EXCEPT !.errorCount = 1]
     IN
     IF OriginRejected(origin, nodeEnv, envOrigins)
     THEN SrvRespond(403, FALSE, "none", m0, <<>>)
     ELSE IF IdentityMissing(hUser, hTenant, nodeEnv)
     THEN SrvRespond(401, FALSE, "none", m0, <<>>)
     ELSE IF ~body.json                                 \* req.json() throws
     THEN OuterCatch("none", m1, "bad json")
     ELSE IF body.isNull                 \* `body.messages` of null throws
     THEN OuterCatch("none", m1, "TypeError")
     ELSE IF resolveProvider(body.provider, envProvider) = "throws"
     THEN OuterCatch("none", m1, "bad provider")
     ELSE IF InvalidMessages(BodyMessages(body))
     THEN SrvRespond(400, TRUE, "none", m1, <<>>)
     ELSE IF upOpen = "throws"
     THEN OuterCatch("failed", m1, "upstream")
     ELSE /\ sPhase' = "streaming"
          /\ sHttp' = 200
          /\ sBodyRead' = TRUE
          /\ sUpstream' = "open"
          /\ sFrames' = <<MetadataFrame>>
          /\ sMetrics' = m0
          /\ UNCHANGED <<sClosed, sCancelled, sStartFailed, sLogs, sChunks>>

\* SrvCatch with the `error` frame left out: the stream is only closed
SrvCatchNoErrorFrame(metrics, err) ==
  LET m == [metrics EXCEPT !.errorCount = @ + 1]
  IN  /\ sMetrics' = m
      /\ sPhase' = "ended"
      /\ IF sCancelled
         THEN /\ sStartFailed' = TRUE
              /\ UNCHANGED <<sFrames, sClosed, sLogs>>
         ELSE /\ sClosed' = TRUE
              /\ sLogs' = Append(sLogs, Telemetry(m, err.message))
              /\ UNCHANGED <<sFrames, sStartFailed>>

\* An exception inside start()'s try block.  The catch block counts it and
\* enqueues an `error` frame; on a cancelled stream that enqueue throws too and
\* the exception leaves start() before close() and logPerformanceMetrics.
SrvCatch(metrics, err) ==
  LET m == [metrics EXCEPT !.errorCount = @ + 1]
      text == IF err.isError THEN err.message ELSE "Unknown error"
  IN  /\ sMetrics' = m
      /\ sPhase' = "ended"
      /\ IF sCancelled
         THEN /\ sStartFailed' = TRUE
              /\ UNCHANGED <<sFrames, sClosed, sLogs>>
         ELSE /\ sFrames' = Append(sFrames, ErrorFrame(text))
              /\ sClosed' = TRUE
              /\ sLogs' = Append(sLogs, Telemetry(m, err.message))
              /\ UNCHANGED sStartFailed

EnqueueTypeError == [isError |-> TRUE, message |-> "Invalid state"]

\* one upstream chunk whose delta.content is the string `token`
UpstreamToken(token) ==
  /\ sPhase = "streaming" /\ sUpstream = "open" /\ sChunks < MaxUpstream
  /\ sChunks' = sChunks + 1
  /\ LET m == [sMetrics EXCEPT !.messageCount = @ + 1]
     IN  IF sCancelled
         THEN /\ SrvCatch(m, EnqueueTypeError)
              /\ sUpstream' = "released"       \* for await calls return()
         ELSE /\ sMetrics' = m
              /\ sFrames' = Append(sFrames, ContentFrame(token, m.messageCount))
              /\ UNCHANGED <<sPhase, sClosed, sStartFailed, sLogs, sUpstream>>
  /\ sFragments' = Append(sFragments, token)
  /\ UNCHANGED <<sHttp, sCancelled, sBodyRead, sReq>>

\* one upstream chunk without a string delta: `continue`
UpstreamNonString ==
  /\ sPhase = "streaming" /\ sUpstream = "open" /\ sChunks < MaxUpstream
  /\ sChunks' = sChunks + 1
  /\ UNCHANGED <<sPhase, sHttp, sFrames, sClosed, sCancelled, sStartFailed,
                 sMetrics, sLogs, sBodyRead, sUpstream, sReq, sFragments>>

\* the upstream iterator reports its end
UpstreamEnd ==
  /\ sPhase = "streaming" /\ sUpstream = "open"
  /\ sUpstream' = "ended"
  /\ IF sCancelled
     THEN SrvCatch(sMetrics, EnqueueTypeError)
     ELSE /\ sFrames' = Append(sFrames, DoneFrame)
          /\ sClosed' = TRUE
          /\ sLogs' = Append(sLogs, Telemetry(sMetrics, Null))
          /\ sPhase' = "ended"
          /\ UNCHANGED <<sMetrics, sStartFailed>>
  /\ UNCHANGED <<sHttp, sCancelled, sBodyRead, sChunks, sReq, sFragments>>

\* the upstream iterator throws
UpstreamThrow(err) ==
  /\ sPhase = "streaming" /\ sUpstream = "open"
  /\ sUpstream' = "failed"
  /\ SrvCatch(sMetrics, err)
  /\ UNCHANGED <<sHttp, sCancelled, sBodyRead, sChunks, sReq, sFragments>>

\* the client goes away: the consumer cancels the stream.  The ReadableStream
\* is built without a cancel handler, so nothing else changes.
ClientCancel ==
  /\ sPhase = "streaming" /\ ~sCancelled
  /\ sCancelled' = TRUE
  /\ UNCHANGED <<sPhase, sHttp, sFrames, sClosed, sStartFailed, sMetrics,
                 sLogs, sBodyRead, sUpstream, sChunks, sReq, sFragments>>

SrvInit ==
  /\ sPhase = "idle"
  /\ sHttp = 0
  /\ sFrames = <<>>
  /\ sClosed = FALSE
  /\ sCancelled = FALSE
  /\ sStartFailed = FALSE
  /\ sMetrics = [messageCount |-> 0, errorCount |-> 0]
  /\ sLogs = <<>>
  /\ sBodyRead = FALSE
  /\ sUpstream = "none"
  /\ sChunks = 0
  /\ sReq = NoRequest
  /\ sFragments = <<>>

SrvNext ==
  \/ /\ sPhase = "idle"
     /\ \E origin \in SrvOrigins, nodeEnv \in SrvNodeEnvs,
           envOrigins \in SrvEnvOrigins, hUser \in SrvHeaders,
           hTenant \in SrvHeaders, envProvider \in SrvEnvProviders,
           body \in SrvBodies, upOpen \in SrvUpstreamOpens :
          POST(origin, nodeEnv, envOrigins, hUser, hTenant, envProvider, body,
               upOpen)
  \/ \E token \in Frags : UpstreamToken(token)
  \/ UpstreamNonString
  \/ UpstreamEnd
  \/ \E err \in UpstreamErrors : UpstreamThrow(err)
  \/ ClientCancel

(***************************************************************************)
(* Client hook useChat, part_001.                                          *)
(*                                                                         *)
(* React runs a queued setState updater when it next renders the hook,     *)
(* unless the hook has no update waiting, in which case it may run the     *)
(* updater inside the set call itself.  `pending` is the queue of the      *)
(* messages state, `dirty` says that some update waits for a render, and   *)
(* Render is React rendering the hook: it runs the queue and hands the new *)
(* values to the callbacks.  The handlers below run between two awaits     *)
(* without interruption, so each is one step.                              *)
(***************************************************************************)
NoRef == [index |-> 0, requestId |-> 0]

Msg(role, content, err, tag) ==
  [role |-> role, content |-> content, error |-> err, tag |-> tag]
\* tag is history: a user message carries the number of the turn it was typed
\* in, an assistant message the number of the request that created it.

SorryText == "Sorry, there was an error processing your request."
ExhaustedText == "Maximum retry attempts reached"

\* content.trim(): text is a sequence of characters
RECURSIVE TrimLeft(_)
TrimLeft(t) == IF t # <<>> /\ Head(t) = " " THEN TrimLeft(Tail(t)) ELSE t
RECURSIVE TrimRight(_)
TrimRight(t) ==
  IF t # <<>> /\ t[Len(t)] = " " THEN TrimRight(SubSeq(t, 1, Len(t) - 1)) ELSE t
Trim(t) == TrimRight(TrimLeft(t))

\* `optionsRef.current.maxRetries || 3`
EffectiveMaxRetries(opt) == IF opt = 0 THEN DefaultMaxRetries ELSE opt

\* ---- the session as one value, for the sequential code of a handler ----
Cur ==
  [msgs |-> messages, pend |-> pending, dirty |-> dirty, loading |-> isLoading,
   err |-> error, retry |-> retryCount, status |-> connectionStatus,
   ref |-> streamingMessageRef, trail |-> <<connectionStatus>>,
   stale |-> staleWrites]

Commit(s) ==
  /\ messages' = s.msgs
  /\ pending' = s.pend
  /\ dirty' = s.dirty
  /\ isLoading' = s.loading
  /\ error' = s.err
  /\ retryCount' = s.retry
  /\ connectionStatus' = s.status
  /\ streamingMessageRef' = s.ref
  /\ statusTrail' = s.trail
  /\ staleWrites' = s.stale

\* updateConnectionStatus(status)
updateConnectionStatus(s, status) ==
  [s EXCEPT !.status = status,
            !.dirty = @ \/ s.status # status,
            !.trail = IF s.status # status THEN Append(@, status) ELSE @]

setError(s, e) == [s EXCEPT !.err = e, !.dirty = @ \/ s.err # e]
setIsLoading(s, b) == [s EXCEPT !.loading = b, !.dirty = @ \/ s.loading # b]
setRetryCount(s, n) == [s EXCEPT !.retry = n, !.dirty = @ \/ s.retry # n]
\* setMetrics always stores a new object
setMetrics(s) == [s EXCEPT !.dirty = TRUE]

\* ---- updates of the messages state ----
Op(kind, msgs, rid, data) == [op |-> kind, msgs |-> msgs, rid |-> rid, data |-> data]
SetOp(msgs) == Op("set", msgs, 0, "")
OpenOp(rid) == Op("open", <<>>, rid, "")
ContentOp(rid, data) == Op("content", <<>>, rid, data)
HttpErrorOp(rid, text) == Op("httperr", <<>>, rid, text)
AppendErrorOp(rid) == Op("append", <<>>, rid, "")

\* the updater of handleStreamingResponse that creates the assistant message
\* and points streamingMessageRef at it
OpenUpdater(s, rid) ==
  [s EXCEPT !.msgs = Append(@, Msg("assistant", <<>>, FALSE, rid)),
            !.ref = [index |-> Len(s.msgs) + 1, requestId |-> rid]]

\* the CONTENT updater without the comparison of request ids
ContentUpdaterNoGuard(s, rid, data) ==
  IF s.ref = NoRef THEN s
  ELSE IF s.ref.index > Len(s.msgs) THEN s
  ELSE [s EXCEPT !.msgs[s.ref.index].content = @ \o <<data>>,
                 !.stale = IF s.ref.requestId # rid
                           THEN @ \cup {<<rid, s.ref.requestId>>} ELSE @]

\* the updater of the CONTENT case
ContentUpdater(s, rid, data) ==
  IF s.ref = NoRef \/ s.ref.requestId # rid THEN s
  ELSE IF s.ref.index > Len(s.msgs) THEN s
  ELSE [s EXCEPT !.msgs[s.ref.index].content = @ \o <<data>>,
                 !.stale = IF s.ref.requestId # rid
                           THEN @ \cup {<<rid, s.ref.requestId>>} ELSE @]

\* the non-2xx updater without `metadata.error`
HttpErrorUpdaterNoFlag(s, rid, text) ==
  IF Len(s.msgs) = 0 THEN s
  ELSE IF s.msgs[Len(s.msgs)].role = "assistant"
  THEN [s EXCEPT !.msgs[Len(s.msgs)].content = <<text>>]
  ELSE [s EXCEPT !.msgs = Append(@, Msg("assistant", <<text>>, FALSE, rid))]

\* the updater of the non-2xx branch of sendMessageCore
HttpErrorUpdater(s, rid, text) ==
  IF Len(s.msgs) = 0 THEN s
  ELSE IF s.msgs[Len(s.msgs)].role = "assistant"
  THEN [s EXCEPT !.msgs[Len(s.msgs)].content = <<text>>,
                 !.msgs[Len(s.msgs)].error = TRUE]
  ELSE [s EXCEPT !.msgs = Append(@, Msg("assistant", <<text>>, TRUE, rid))]

\* the updater of the catch block of sendMessageCore
AppendErrorUpdater(s, rid) ==
  [s EXCEPT !.msgs = Append(@, Msg("assistant", <<SorryText>>, FALSE, rid))]

ApplyOp(s, op) ==
  CASE op.op = "set" -> [s EXCEPT !.msgs = op.msgs]
    [] op.op = "open" -> OpenUpdater(s, op.rid)
    [] op.op = "content" -> ContentUpdater(s, op.rid, op.data)
    [] op.op = "httperr" -> HttpErrorUpdater(s, op.rid, op.data)
    [] op.op = "append" -> AppendErrorUpdater(s, op.rid)

RECURSIVE ApplyAll(_, _)
ApplyAll(s, ops) ==
  IF ops = <<>> THEN s ELSE ApplyAll(ApplyOp(s, Head(ops)), Tail(ops))

\* setMessages(update).  An updater function runs inside the call when the
\* hook is clean and React takes the eager path (mayEager), and is queued for
\* the next render otherwise.  A plain value has no code to run: with nothing
\* queued before it, storing it at once is the same as storing it at the
\* render, and queued right after another plain value it replaces that one.
setMessages(s, op, mayEager) ==
  IF op.op = "set"
  THEN IF s.pend = <<>> THEN [s EXCEPT !.msgs = op.msgs, !.dirty = TRUE]
       ELSE IF s.pend[Len(s.pend)].op = "set"
       THEN [s EXCEPT !.pend[Len(s.pend)] = op, !.dirty = TRUE]
       ELSE [s EXCEPT !.pend = Append(@, op), !.dirty = TRUE]
  ELSE IF s.dirty \/ ~mayEager
  THEN [s EXCEPT !.pend = Append(@, op), !.dirty = TRUE]
  ELSE LET t == ApplyOp(s, op) IN [t EXCEPT !.dirty = t.msgs # s.msgs]

(***************************************************************************)
(* Decoding of one transport read (handleStreamingResponse, read loop).    *)
(***************************************************************************)
\* chunk.split('\n')
RECURSIVE SplitLines(_, _)
SplitLines(chunk, line) ==
  IF chunk = <<>> THEN <<line>>
  ELSE IF Head(chunk) = NL THEN <<line>> \o SplitLines(Tail(chunk), <<>>)
  ELSE SplitLines(Tail(chunk), Append(line, Head(chunk)))

\* JSON.parse(data): only the whole JSON text of a frame parses
JsonParse(data) ==
  IF /\ Len(data) = 2
     /\ data[1].k = "json-head"
     /\ data[2].k = "json-tail"
     /\ data[1].f = data[2].f
  THEN [ok |-> TRUE, f |-> data[1].f]
  ELSE [ok |-> FALSE, f |-> NoFrame]

\* `line.startsWith('data: ')`, `line.slice(6)`, `!data.trim()`, JSON.parse
ParseLine(line) ==
  IF line = <<>> \/ Head(line) # PFX THEN [ok |-> FALSE, f |-> NoFrame]
  ELSE IF Tail(line) = <<>> THEN [ok |-> FALSE, f |-> NoFrame]
  ELSE JsonParse(Tail(line))

\* the catch block with the exception passed on: the read loop ends
SkipRecordAborts(x) == [x EXCEPT !.ret = "error"]

\* `catch (e) { console.warn('Failed to parse SSE message:', data, e) }`
SkipRecord(x) == [x EXCEPT !.cb = @ \cup {"warn"}]

\* The body of the for loop for one line.  x.s is the session, x.ret the
\* frame type the function returned on ("" while it goes on), x.got the
\* content fragments decoded, x.cb the option callbacks and console.warn
\* called.
ProcessLine(x, line, rid, mayEager) ==
  LET p == ParseLine(line)
      f == p.f
  IN  IF ~p.ok
      THEN \* a line that reached JSON.parse and failed: console.warn
           IF line # <<>> /\ Head(line) = PFX /\ Tail(line) # <<>>
           THEN SkipRecord(x) ELSE x
      ELSE CASE f.type = "metadata" ->
                  \* JSON.parse(sseMessage.data) throws on a payload that is
                  \* no JSON; the catch logs it
                  IF f.data = "meta" THEN [x EXCEPT !.s = setMetrics(@)]
                  ELSE SkipRecord(x)
             [] f.type = "content" ->
                  [x EXCEPT !.s = setMetrics(setMessages(@, ContentOp(rid, f.data),
                                                         mayEager)),
                            !.got = Append(@, f.data)]
             [] f.type = "done" ->
                  [x EXCEPT !.s = updateConnectionStatus([@ EXCEPT !.ref = NoRef],
                                                         "disconnected"),
                            !.ret = "done"]
             [] f.type = "error" ->
                  [x EXCEPT !.s = updateConnectionStatus(
                                    setMetrics(setError([@ EXCEPT !.ref = NoRef],
                                                        f.data)),
                                    "error"),
                            !.cb = @ \cup {"onError"},
                            !.ret = "error"]
             [] OTHER -> x

RECURSIVE ProcessLines(_, _, _, _)
ProcessLines(x, lines, rid, mayEager) ==
  IF lines = <<>> \/ x.ret # "" THEN x
  ELSE ProcessLines(ProcessLine(x, Head(lines), rid, mayEager), Tail(lines),
                    rid, mayEager)

\* the finally block of handleStreamingResponse
StreamFinally(s) ==
  updateConnectionStatus([s EXCEPT !.ref = NoRef], "disconnected")

\* the catch block of sendMessageCore without the finally block
CoreCatchNoFinally(s, rid, text, mayEager) ==
  setMessages(updateConnectionStatus(setError(s, text), "error"),
              AppendErrorOp(rid), mayEager)

\* the catch and finally blocks of sendMessageCore
CoreCatch(s, rid, text, mayEager) ==
  setIsLoading(
    setMessages(updateConnectionStatus(setError(s, text), "error"),
                AppendErrorOp(rid), mayEager),
    FALSE)

\* sendMessageCore with the retry count reset on every dispatch
CoreStartResetsRetry(s, newMessages) ==
  setIsLoading(
    setMessages(setMetrics(updateConnectionStatus(
                             setError(setRetryCount(s, 0), Null), "connecting")),
                SetOp(newMessages), TRUE),
    TRUE)

\* sendMessageCore from setError(null) to setIsLoading(true)
CoreStart(s, newMessages) ==
  setIsLoading(
    setMessages(setMetrics(updateConnectionStatus(setError(s, Null), "connecting")),
                SetOp(newMessages), TRUE),
    TRUE)

(***************************************************************************)
(* Requests and what the transport can answer.                             *)
(***************************************************************************)
Resp(kind, k, term, text) == [kind |-> kind, k |-> k, term |-> term, text |-> text]

NoResp == Resp("", 0, "", "")

NewReq(turn, body, payload) ==
  [phase |-> "fetch", wire |-> <<>>, turn |-> turn, body |-> body,
   payload |-> payload, resp |-> NoResp, cb |-> {}, end |-> "", got |-> <<>>]

\* the j-th fragment of a response stream
FragSeq == <<"a", "b", "c", "d">>

EncodeFrame(f) == buildSSEMessage(f.type, f.data, f.id)

RECURSIVE ContentRecords(_, _)
ContentRecords(j, k) ==
  IF j > k THEN <<>>
  ELSE EncodeFrame(ContentFrame(FragSeq[j], j)) \o ContentRecords(j + 1, k)

\* the bytes of a response stream: metadata, k content frames, then `done`,
\* `error`, or nothing when the transport ends early
Wire(resp) ==
  EncodeFrame(MetadataFrame) \o ContentRecords(1, resp.k)
    \o (CASE resp.term = "done" -> EncodeFrame(DoneFrame)
          [] resp.term = "error" -> EncodeFrame(ErrorFrame("boom"))
          [] OTHER -> <<>>)

HttpErrorTexts == {"Request failed with status 500"}

Responses ==
  {Resp("reject", 0, "", ""), Resp("nobody", 0, "", "")}
    \cup {Resp("http", 0, "", t) : t \in HttpErrorTexts}
    \cup {Resp("stream", k, term, "") :
            k \in 0..MaxFrags, term \in {"done", "error", "none"}}

UserTexts == {<<" ">>, <<" ", "q", " ">>}
Payloads == {Null, "p1"}
MaxRetriesOptions == {0, 1}

(***************************************************************************)
(* The operations of the hook.                                             *)
(***************************************************************************)
Last(q) == q[Len(q)]
AllButLast(q) == SubSeq(q, 1, Len(q) - 1)

\* sendMessage(content, payload), with sendMessageCore inlined.  The
\* callbacks read `messages` and `isLoading` of the render that made them.
SendAccepted(text) == Trim(text) # <<>> /\ ~rIsLoading

SendMessage(text, payload) ==
  LET accepted == SendAccepted(text)
      turn == Len(reqs) + 1
      newMessages == Append(rMessages, Msg("user", Trim(text), FALSE, turn))
  IN  /\ lastCall' = "sendMessage"
      /\ lastPayloadRef' = payload
      /\ IF accepted
         THEN /\ Commit(CoreStart(Cur, newMessages))
              /\ reqs' = Append(reqs, NewReq(turn, newMessages, payload))
         ELSE UNCHANGED <<messages, pending, dirty, isLoading, error, retryCount,
                          connectionStatus, streamingMessageRef, staleWrites,
                          reqs>>
              /\ statusTrail' = <<connectionStatus>>
      /\ UNCHANGED <<rMessages, rIsLoading, rRetryCount, maxRetries>>

\* retry() goes on to dispatch a request
RetryResends ==
  /\ ~(rRetryCount >= EffectiveMaxRetries(maxRetries))
  /\ rMessages # <<>>
  /\ Last(rMessages).role = "user"
  /\ ~rIsLoading

\* the exhaustion test with `>` in place of `>=`
RetryExhaustedOffByOne(count, opt) == count > EffectiveMaxRetries(opt)

\* `retryCount >= (optionsRef.current.maxRetries || 3)`
RetryExhausted(count, opt) == count >= EffectiveMaxRetries(opt)

\* the history of a retry with the last message kept
RetryHistoryKeepLast(msgs) == msgs

\* `messages.slice(0, -1)`
RetryHistory(msgs) == AllButLast(msgs)

\* retry()
Retry ==
  /\ lastCall' = "retry"
  /\ IF RetryExhausted(rRetryCount, maxRetries)
     THEN /\ Commit(setError(Cur, ExhaustedText))
          /\ UNCHANGED reqs
     ELSE LET s1 == setError(setRetryCount(Cur, retryCount + 1), Null)
              resend == /\ rMessages # <<>>
                        /\ Last(rMessages).role = "user"
                        /\ ~rIsLoading
          IN  /\ retryCount < MaxRetryCalls
              /\ IF resend
                 THEN LET turn == Last(rMessages).tag
                          newMessages ==
                            Append(RetryHistory(rMessages),
                                   Msg("user", Trim(Last(rMessages).content),
                                       FALSE, turn))
                      IN  /\ Commit(CoreStart(s1, newMessages))
                          /\ reqs' = Append(reqs, NewReq(turn, newMessages,
                                                         lastPayloadRef))
                 ELSE /\ Commit(s1)
                      /\ UNCHANGED reqs
  /\ UNCHANGED <<rMessages, rIsLoading, rRetryCount, maxRetries, lastPayloadRef>>

\* clearMessages() with the connection status reset as well
ClearMessagesResetsStatus ==
  /\ lastCall' = "clearMessages"
  /\ Commit(updateConnectionStatus(
              setRetryCount(setError(setMessages(Cur, SetOp(<<>>), TRUE), Null), 0),
              "disconnected"))
  /\ UNCHANGED <<rMessages, rIsLoading, rRetryCount, maxRetries, lastPayloadRef,
                 reqs>>

\* clearMessages()
ClearMessages ==
  /\ lastCall' = "clearMessages"
  /\ Commit(setRetryCount(setError(setMessages(Cur, SetOp(<<>>), TRUE), Null), 0))
  /\ UNCHANGED <<rMessages, rIsLoading, rRetryCount, maxRetries, lastPayloadRef,
                 reqs>>

\* React renders the hook: the queued updaters run in order and the callbacks
\* are rebuilt with the new state.
Render ==
  /\ dirty
  /\ lastCall' = "render"
  /\ LET s == ApplyAll(Cur, pending)
     IN  /\ Commit([s EXCEPT !.pend = <<>>, !.dirty = FALSE])
         /\ rMessages' = s.msgs
         /\ rIsLoading' = isLoading
         /\ rRetryCount' = retryCount
  /\ UNCHANGED <<maxRetries, lastPayloadRef, reqs>>

\* handleStreamingResponse leaves (frame `ret`, or "eof"): its finally block
\* runs, and sendMessageCore, which awaits it, goes on in a later microtask
\* (Settle)
FinishStream(i, x, how) ==
  /\ Commit(StreamFinally(x.s))
  /\ reqs' = [reqs EXCEPT ![i].phase = "settle",
                          ![i].wire = <<>>,
                          ![i].end = how,
                          ![i].got = x.got,
                          ![i].cb = x.cb]

\* the requests whose handleStreamingResponse has left and whose
\* sendMessageCore has not gone on yet
Settling == {i \in 1..Len(reqs) : reqs[i].phase = "settle"}

\* sendMessageCore goes on behind `await handleStreamingResponse(...)`: with
\* onSuccess when the call returned, with the catch block when it threw;
\* then the finally block
Settle(i, mayEager) ==
  /\ i \in Settling
  /\ lastCall' = "settle"
  /\ IF reqs[i].end = "readfail"
     THEN /\ Commit(CoreCatch(Cur, i, "read failed", mayEager))
          /\ reqs' = [reqs EXCEPT ![i].phase = "done",
                                  ![i].cb = @ \cup {"onError"}]
     ELSE /\ ~mayEager
          /\ Commit(setIsLoading(Cur, FALSE))
          /\ reqs' = [reqs EXCEPT ![i].phase = "done",
                                  ![i].cb = @ \cup {"onSuccess"}]
  /\ UNCHANGED <<rMessages, rIsLoading, rRetryCount, maxRetries, lastPayloadRef>>

\* `await fetch(...)` of request i settles with resp
Respond(i, resp, mayEager) ==
  /\ i \in 1..Len(reqs)
  /\ reqs[i].phase = "fetch"
  /\ lastCall' = "respond"
  /\ CASE resp.kind \in {"reject", "nobody"} ->
            /\ Commit(CoreCatch(Cur, i, resp.kind, mayEager))
            /\ reqs' = [reqs EXCEPT ![i].phase = "done", ![i].resp = resp,
                                    ![i].end = resp.kind,
                                    ![i].cb = @ \cup {"onError"}]
       [] resp.kind = "http" ->
            /\ Commit(setIsLoading(
                        setMessages(
                          setError(updateConnectionStatus(
                                     [Cur EXCEPT !.ref = NoRef], "error"),
                                   resp.text),
                          HttpErrorOp(i, resp.text), mayEager),
                        FALSE))
            /\ reqs' = [reqs EXCEPT ![i].phase = "done", ![i].resp = resp,
                                    ![i].end = "http"]
       [] resp.kind = "stream" ->
            /\ Commit(updateConnectionStatus(
                        setMessages(Cur, OpenOp(i), mayEager), "connected"))
            /\ reqs' = [reqs EXCEPT ![i].phase = "stream", ![i].resp = resp,
                                    ![i].wire = Wire(resp)]
  /\ UNCHANGED <<rMessages, rIsLoading, rRetryCount, maxRetries, lastPayloadRef>>

\* a `metadata` frame whose payload is no JSON
BadMetadataFrame == Frame("metadata", "{bad", FrameId(ServerRid, 0, ""))

\* records that fail to parse: no JSON at all, no JSON in the payload
MalformedRecords == {<<PFX, Junk, NL, NL>>, EncodeFrame(BadMetadataFrame)}

IsMalformedPiece(t) ==
  t = Junk \/ (t.k \in {"json-head", "json-tail"} /\ t.f = BadMetadataFrame)

MalformedCount(w) ==
  Cardinality({n \in 1..Len(w) : w[n].k \in {"junk", "json-head"}
                                   /\ IsMalformedPiece(w[n])})

\* the places of a stream where a record begins
RecordStarts(w) ==
  {0} \cup {n \in 2..Len(w) : w[n] = NL /\ w[n - 1] = NL}

\* reader.read() of request i yields the next n pieces of the stream
Read(i, n, mayEager) ==
  /\ i \in 1..Len(reqs)
  /\ reqs[i].phase = "stream"
  /\ n \in 1..Len(reqs[i].wire)
  /\ lastCall' = "read"
  /\ LET chunk == SubSeq(reqs[i].wire, 1, n)
         rest == SubSeq(reqs[i].wire, n + 1, Len(reqs[i].wire))
         x0 == [s |-> Cur, ret |-> "", got |-> reqs[i].got, cb |-> reqs[i].cb]
         x == ProcessLines(x0, SplitLines(chunk, <<>>), i, mayEager)
     IN  IF x.ret # ""
         THEN FinishStream(i, x, x.ret)
         ELSE /\ Commit(x.s)
              /\ reqs' = [reqs EXCEPT ![i].wire = rest, ![i].got = x.got,
                                      ![i].cb = x.cb]
  /\ UNCHANGED <<rMessages, rIsLoading, rRetryCount, maxRetries, lastPayloadRef>>

\* reader.read() of request i reports the end of the transport
ReadEnd(i) ==
  /\ i \in 1..Len(reqs)
  /\ reqs[i].phase = "stream"
  /\ reqs[i].wire = <<>>
  /\ lastCall' = "read"
  /\ FinishStream(i, [s |-> Cur, ret |-> "", got |-> reqs[i].got,
                      cb |-> reqs[i].cb], "eof")
  /\ UNCHANGED <<rMessages, rIsLoading, rRetryCount, maxRetries, lastPayloadRef>>

\* reader.read() of request i rejects: the finally block of
\* handleStreamingResponse runs and the exception goes on to sendMessageCore,
\* whose catch block runs in a later microtask (Settle)
ReadFail(i) ==
  /\ i \in 1..Len(reqs)
  /\ reqs[i].phase = "stream"
  /\ lastCall' = "read"
  /\ Commit(StreamFinally(Cur))
  /\ reqs' = [reqs EXCEPT ![i].phase = "settle", ![i].wire = <<>>,
                          ![i].end = "readfail"]
  /\ UNCHANGED <<rMessages, rIsLoading, rRetryCount, maxRetries, lastPayloadRef>>

\* the transport carries a record that does not parse: `rec` stands in the
\* stream of request i behind the first `pos` pieces still to be read
Corrupt(i, pos, rec) ==
  /\ i \in 1..Len(reqs)
  /\ reqs[i].phase = "stream"
  /\ pos \in RecordStarts(reqs[i].wire)
  /\ MalformedCount(reqs[i].wire) < MaxMalformed
  /\ "warn" \notin reqs[i].cb
  /\ reqs' = [reqs EXCEPT ![i].wire = SubSeq(@, 1, pos) \o rec
                                        \o SubSeq(@, pos + 1, Len(@))]
  /\ UNCHANGED <<messages, pending, dirty, isLoading, error, retryCount,
                 connectionStatus, rMessages, rIsLoading, rRetryCount,
                 streamingMessageRef, lastPayloadRef, maxRetries, statusTrail,
                 staleWrites, lastCall>>

(***************************************************************************)
(* Specifications.                                                         *)
(***************************************************************************)
CliInit ==
  /\ messages = <<>>
  /\ pending = <<>>
  /\ dirty = FALSE
  /\ isLoading = FALSE
  /\ error = Null
  /\ retryCount = 0
  /\ connectionStatus = "disconnected"
  /\ rMessages = <<>>
  /\ rIsLoading = FALSE
  /\ rRetryCount = 0
  /\ streamingMessageRef = NoRef
  /\ lastPayloadRef = Null
  /\ reqs = <<>>
  /\ statusTrail = <<"disconnected">>
  /\ staleWrites = {}
  /\ lastCall = ""

\* ---- one turn: a single sendMessage and everything the transport can do
\* with its request, the stream cut into reads at any place ----
TurnText == <<" ", "q", " ">>

TurnNext ==
  \/ \E text \in UserTexts :
       /\ Settling = {}
       /\ SendAccepted(text) => reqs = <<>>
       /\ SendMessage(text, Null)
  \/ Settling = {} /\ ClearMessages
  \/ Settling = {} /\ Render
  \/ \E resp \in Responses, mayEager \in BOOLEAN : Respond(1, resp, mayEager)
  \/ \E n \in 1..(5 * (MaxFrags + 2)), mayEager \in BOOLEAN : Read(1, n, mayEager)
  \/ ReadEnd(1)
  \/ ReadFail(1)
  \/ \E mayEager \in BOOLEAN : Settle(1, mayEager)

\* ---- a session: calls of the UI at any time, requests side by side; the
\* transport hands over one record per read ----
SessionResponses ==
  {r \in Responses : r.kind = "stream" => r.k <= SessionFrags}

SessionNext ==
  \/ \E text \in UserTexts :
       /\ Settling = {}
       /\ SendAccepted(text) => Len(reqs) < MaxRequests
       /\ SendMessage(text, Null)
  \/ Settling = {} /\ Render
  \/ \E i \in 1..MaxRequests, resp \in SessionResponses, mayEager \in BOOLEAN :
       Respond(i, resp, mayEager)
  \/ \E i \in 1..MaxRequests, mayEager \in BOOLEAN : Read(i, 5, mayEager)
  \/ \E i \in 1..MaxRequests : ReadEnd(i)
  \/ \E i \in 1..MaxRequests : ReadFail(i)
  \/ \E i \in 1..MaxRequests, mayEager \in BOOLEAN : Settle(i, mayEager)

\* ---- a session with retries: sendMessage, retry and clearMessages at any
\* time; the transport fails a request, or answers with a stream without
\* content; a payload comes with the first request and with calls that are
\* turned down ----
RetryResponses ==
  {r \in Responses : r.kind # "nobody" /\ (r.kind = "stream" => r.k = 0)}

RetryNext ==
  \/ \E text \in UserTexts, payload \in Payloads :
       /\ Settling = {}
       /\ SendAccepted(text) => Len(reqs) < RetryRequests
       /\ (SendAccepted(text) /\ reqs # <<>>) => payload = Null
       /\ SendMessage(text, payload)
  \/ Settling = {} /\ (RetryResends => Len(reqs) < RetryRequests) /\ Retry
  \/ Settling = {} /\ ClearMessages
  \/ Settling = {} /\ Render
  \/ \E i \in 1..RetryAnswered, resp \in RetryResponses, mayEager \in BOOLEAN :
       Respond(i, resp, mayEager)
  \/ \E i \in 1..RetryAnswered, mayEager \in BOOLEAN : Read(i, 5, mayEager)
  \/ \E i \in 1..RetryAnswered : ReadEnd(i)
  \/ \E i \in 1..RetryAnswered : Settle(i, FALSE)

\* ---- one turn whose stream carries a record that does not parse; the
\* transport hands over whole records ----
MalformedResponses ==
  {r \in Responses : r.kind = "stream" /\ r.k <= 1}

MalformedNext ==
  \/ reqs = <<>> /\ SendMessage(TurnText, Null)
  \/ Settling = {} /\ Render
  \/ \E resp \in MalformedResponses, mayEager \in BOOLEAN :
       Respond(1, resp, mayEager)
  \/ \E pos \in 0..(5 * (MaxFrags + 2)), rec \in MalformedRecords :
       Corrupt(1, pos, rec)
  \/ \E n \in 1..(5 * (MaxFrags + 3)), mayEager \in BOOLEAN :
       /\ reqs # <<>>
       /\ n \in RecordStarts(reqs[1].wire)
       /\ Read(1, n, mayEager)
  \/ ReadEnd(1)
  \/ Settle(1, FALSE)

InitRetry == SrvInit /\ CliInit /\ maxRetries \in MaxRetriesOptions

InitServer == SrvInit /\ CliInit /\ maxRetries = 0

InitClient == SrvInit /\ CliInit /\ maxRetries = 0

SpecServer == InitServer /\ [][SrvNext /\ UNCHANGED cliVars]_vars

SpecTurn == InitClient /\ [][TurnNext /\ UNCHANGED srvVars]_vars

SpecClient == InitClient /\ [][SessionNext /\ UNCHANGED srvVars]_vars

SpecRetry == InitRetry /\ [][RetryNext /\ UNCHANGED srvVars]_vars

SpecMalformed == InitClient /\ [][MalformedNext /\ UNCHANGED srvVars]_vars

(***************************************************************************)
(* Claims.                                                                 *)
(***************************************************************************)
IsTerminal(f) == f.type \in {"done", "error"}

\* C1: the frames the relay writes on a response stream are `metadata`, then
\* only `content` frames, then at most one terminal frame, which is the last
\* frame written; the relay closes the stream only after a terminal frame,
\* `done` when the upstream ended and `error` when it threw; and when start()
\* is over on a stream the consumer has not cancelled, the stream is closed.
C1_StreamFraming ==
  /\ sHttp = 200 => sFrames # <<>>
  /\ sClosed => sFrames # <<>>
  /\ sFrames # <<>> =>
       /\ sFrames[1].type = "metadata"
       /\ \A j \in 2..Len(sFrames) : sFrames[j].type \in {"content", "done", "error"}
       /\ \A j \in 1..(Len(sFrames) - 1) : ~IsTerminal(sFrames[j])
       /\ sClosed <=> IsTerminal(sFrames[Len(sFrames)])
       /\ sFrames[Len(sFrames)].type = "done" => sUpstream = "ended"
       /\ sFrames[Len(sFrames)].type = "error" => sUpstream = "failed"
       /\ (sPhase = "ended" /\ ~sCancelled) => sClosed

\* C1 witness: the upstream threw after a content frame and the stream was
\* closed behind an `error` frame
C1_Witness ==
  /\ sClosed
  /\ Len(sFrames) >= 3
  /\ sFrames[2].type = "content"
  /\ sFrames[Len(sFrames)].type = "error"

\* ---- vocabulary of the client claims ----

\* the message list once React has run the queued updaters
View == ApplyAll(Cur, pending).msgs

\* the streaming pointer once React has run the queued updaters
ViewRef == ApplyAll(Cur, pending).ref

UserCount(list, turn) ==
  Cardinality({j \in 1..Len(list) :
                 list[j].role = "user" /\ list[j].tag = turn})

AssistantCount(list, i) ==
  Cardinality({j \in 1..Len(list) :
                 list[j].role = "assistant" /\ list[j].tag = i})

\* the fragments the stream of request i carried
SentFragments(i) == SubSeq(FragSeq, 1, reqs[i].resp.k)

InFlight == {i \in 1..Len(reqs) : reqs[i].phase # "done"}

FailedEnds == {"http", "reject", "nobody", "readfail", "error"}

\* C2: whatever content frames one request's stream carries and however the
\* transport cuts the bytes into reads, once the stream has been read to its
\* end and React has rendered, the assistant message of the request holds
\* the fragments of all content frames, in order, none lost or repeated.
C2_Reconstruction ==
  \A i \in 1..Len(reqs) :
    (/\ reqs[i].phase = "done"
     /\ reqs[i].end \in {"done", "error", "eof"}
     /\ ~dirty)
    => \A j \in 1..Len(messages) :
         (messages[j].role = "assistant" /\ messages[j].tag = i)
         => messages[j].content = SentFragments(i)

\* C3: a content frame changes a message only when the request it belongs
\* to is the request the streaming pointer names; a frame of another request
\* changes no message.
C3_StaleFrameGuard == staleWrites = {}

\* C3 witness: two streams were open side by side; React has rendered; the
\* frame that came while the pointer named the other request was dropped, the
\* frame of the request the pointer named was applied
C3_Witness ==
  /\ ~dirty
  /\ \E i, j \in 1..Len(reqs) :
       /\ i # j
       /\ reqs[i].got # <<>>
       /\ reqs[j].got # <<>>
       /\ \E m \in 1..Len(messages) :
            messages[m] = Msg("assistant", reqs[j].got, FALSE, j)
       /\ \A m \in 1..Len(messages) :
            (messages[m].role = "assistant" /\ messages[m].tag = i)
            => messages[m].content = <<>>

\* C4: a session has at most one request in flight at any time.
C4_InFlightGuard == Cardinality(InFlight) <= 1

\* C5: when the last attempt has failed, the hook has rendered, the failed
\* turn's user message is in the list and retryCount is below the maximum,
\* retry() adds one to retryCount and dispatches a request that carries the
\* last user message and the cached payload.
C5_RetryResubmits ==
  [][(/\ lastCall' = "retry"
      /\ ~dirty
      /\ reqs # <<>>
      /\ InFlight = {}
      /\ Last(reqs).end \in FailedEnds
      /\ UserCount(messages, Last(reqs).turn) = 1
      /\ rRetryCount < EffectiveMaxRetries(maxRetries))
     => (/\ retryCount' = retryCount + 1
         /\ Len(reqs') = Len(reqs) + 1
         /\ Last(reqs').turn = Last(reqs).turn
         /\ Last(reqs').payload = lastPayloadRef
         /\ UserCount(Last(reqs').body, Last(reqs).turn) = 1
         /\ \A j \in 1..Len(Last(reqs').body) :
              Last(reqs').body[j].role = "assistant"
              => ~Last(reqs').body[j].error)]_vars

\* C6: when the retryCount the hook shows has reached the effective maximum,
\* a retry() call dispatches no request, leaves retryCount and the message
\* list as they are, and sets the error to the exhausted-retries message.
C6_RetryExhaustion ==
  [][(lastCall' = "retry" /\ rRetryCount >= EffectiveMaxRetries(maxRetries))
     => (/\ reqs' = reqs
         /\ retryCount' = retryCount
         /\ messages' = messages
         /\ pending' = pending
         /\ error' = ExhaustedText)]_vars

\* C6 witness: with the default maximum of 3, three retry() calls were
\* counted and the fourth was turned down
C6_Witness ==
  /\ lastCall = "retry"
  /\ maxRetries = 0
  /\ retryCount = DefaultMaxRetries
  /\ rRetryCount = DefaultMaxRetries
  /\ error = ExhaustedText

\* C7: no user turn is ever twice in the message list, neither in the list
\* the hook shows, nor in the list React is about to show, and the list a
\* retry() sends and stores ends with the retried user message as its only
\* copy.
C7_RetryNoDuplication ==
  /\ \A t \in 1..Len(reqs) :
       /\ UserCount(messages, t) <= 1
       /\ UserCount(rMessages, t) <= 1
       /\ UserCount(View, t) <= 1
  /\ \A i \in 1..Len(reqs) :
       /\ UserCount(reqs[i].body, reqs[i].turn) = 1
       /\ Last(reqs[i].body).role = "user"
       /\ Last(reqs[i].body).tag = reqs[i].turn

\* C7 witness: retry() has sent a user turn again, React has rendered, and
\* the hook shows that turn once
C7_Witness ==
  /\ ~dirty
  /\ lastCall = "render"
  /\ retryCount >= 1
  /\ \E i \in 1..Len(reqs) :
       /\ reqs[i].turn < i
       /\ UserCount(messages, reqs[i].turn) = 1
       /\ UserCount(rMessages, reqs[i].turn) = 1

\* C8: when a stream has delivered k content frames and then an error frame,
\* then at the end of the request the assistant message of the request is in
\* the list with the k fragments as content and the error flag set, the
\* session error is the frame's message and connectionStatus is error.
C8_ErrorFrame ==
  \A i \in 1..Len(reqs) :
    (/\ reqs[i].phase = "done"
     /\ reqs[i].end = "error"
     /\ lastCall = "settle"
     /\ UserCount(View, reqs[i].turn) = 1)
    => /\ connectionStatus = "error"
       /\ error = "boom"
       /\ \E j \in 1..Len(View) :
            View[j] = Msg("assistant", SentFragments(i), TRUE, i)

StatusEdges ==
  {<<"disconnected", "connecting">>, <<"connecting", "connected">>,
   <<"connected", "disconnected">>, <<"connecting", "error">>,
   <<"connected", "error">>, <<"error", "connecting">>}

\* C9: every change of connectionStatus is one of the edges
\* disconnected -> connecting, connecting -> connected,
\* connected -> disconnected, connecting -> error, connected -> error,
\* error -> connecting.
C9_StatusMachine ==
  \A j \in 1..(Len(statusTrail) - 1) :
    <<statusTrail[j], statusTrail[j + 1]>> \in StatusEdges

\* C10: after a stream of metadata, one or more content frames and done has
\* been read to its end and React has rendered, connectionStatus is
\* disconnected, the streaming pointer is cleared, and the list, when the
\* user message of the turn is in it, is that message with exactly one
\* assistant message of the request directly after it.
C10_SuccessfulTurn ==
  \A i \in 1..Len(reqs) :
    (/\ reqs[i].phase = "done"
     /\ reqs[i].resp.kind = "stream"
     /\ reqs[i].resp.term = "done"
     /\ reqs[i].resp.k >= 1
     /\ reqs[i].end \in {"done", "eof"}
     /\ ~dirty)
    => /\ connectionStatus = "disconnected"
       /\ streamingMessageRef = NoRef
       /\ UserCount(messages, reqs[i].turn) = 1
          => /\ AssistantCount(messages, i) = 1
             /\ \E j \in 1..(Len(messages) - 1) :
                  /\ messages[j].role = "user"
                  /\ messages[j].tag = reqs[i].turn
                  /\ messages[j + 1].role = "assistant"
                  /\ messages[j + 1].tag = i

\* C11: when a dispatched request whose user message is in the list is
\* answered with a non-2xx status, the catch block is not entered, the list
\* keeps the user's message and gains one assistant message with the error
\* text and the error flag (the last message is overwritten with them when
\* it is an assistant message already), connectionStatus becomes error, the
\* error is the error text and the streaming pointer is null.
C11_NonOkResponse ==
  [][\A i \in 1..Len(reqs) :
       (/\ reqs[i].phase = "fetch"
        /\ reqs'[i].end = "http"
        /\ UserCount(View, reqs[i].turn) = 1)
       => (/\ "onError" \notin reqs'[i].cb
           /\ connectionStatus' = "error"
           /\ error' = reqs'[i].resp.text
           /\ streamingMessageRef' = NoRef
           /\ UserCount(View', reqs[i].turn) = 1
           /\ IF Last(View).role = "assistant"
              THEN /\ Len(View') = Len(View)
                   /\ AllButLast(View') = AllButLast(View)
                   /\ Last(View').role = "assistant"
                   /\ Last(View').content = <<reqs'[i].resp.text>>
                   /\ Last(View').error
              ELSE View' = Append(View, Msg("assistant", <<reqs'[i].resp.text>>,
                                            TRUE, i)))]_vars

\* C11 witness: the request was answered with a non-2xx status, React has
\* rendered, and the list is the user message and the flagged error message
C11_Witness ==
  /\ ~dirty
  /\ Len(reqs) = 1
  /\ reqs[1].end = "http"
  /\ connectionStatus = "error"
  /\ streamingMessageRef = NoRef
  /\ messages = <<Msg("user", <<"q">>, FALSE, 1),
                  Msg("assistant", <<"Request failed with status 500">>, TRUE, 1)>>

TransportEnds == {"reject", "nobody", "readfail"}

\* C12: when a request whose user message is in the list fails at the
\* transport (fetch rejects, the response has no body, a read fails), then at
\* the end of the request connectionStatus is error, the user's message is
\* in the list, and the list holds exactly one assistant message of the
\* request, which carries the error flag.
C12_TransportFailure ==
  \A i \in 1..Len(reqs) :
    (/\ reqs[i].phase = "done"
     /\ reqs[i].end \in TransportEnds
     /\ lastCall \in {"respond", "settle"}
     /\ UserCount(View, reqs[i].turn) = 1)
    => /\ connectionStatus = "error"
       /\ AssistantCount(View, i) = 1
       /\ \A j \in 1..Len(View) :
            (View[j].role = "assistant" /\ View[j].tag = i) => View[j].error

\* a line the read loop hands to JSON.parse and that fails to parse
IsMalformedLine(line) ==
  /\ line # <<>>
  /\ Head(line) = PFX
  /\ Tail(line) # <<>>
  /\ \/ ~JsonParse(Tail(line)).ok
     \/ /\ JsonParse(Tail(line)).f.type = "metadata"
        /\ JsonParse(Tail(line)).f.data # "meta"

WellFormedLine(line) == ~IsMalformedLine(line)

\* a decoding result without the console.warn calls
Quiet(x) == [x EXCEPT !.cb = @ \ {"warn"}]

\* C13: whatever the transport hands over next on an open stream, a record
\* in it that fails to parse changes no session state and does not end the
\* read loop, and the frames of the read are processed as they are when the
\* malformed records are taken out of the read.
C13_MalformedSkipped ==
  \A i \in 1..Len(reqs) :
    reqs[i].phase = "stream"
    => \A n \in 1..Len(reqs[i].wire), mayEager \in BOOLEAN :
         LET lines == SplitLines(SubSeq(reqs[i].wire, 1, n), <<>>)
             x0 == [s |-> Cur, ret |-> "", got |-> reqs[i].got,
                    cb |-> reqs[i].cb]
         IN  /\ \A j \in 1..Len(lines) :
                  IsMalformedLine(lines[j])
                  => Quiet(ProcessLine(x0, lines[j], i, mayEager)) = Quiet(x0)
             /\ Quiet(ProcessLines(x0, lines, i, mayEager))
                  = Quiet(ProcessLines(x0, SelectSeq(lines, WellFormedLine),
                                       i, mayEager))

\* C13 witness: the stream carried a record without JSON, the read loop
\* warned about it and went on; the content frame behind it was applied and
\* the stream ended on its `done` frame
C13_Witness ==
  /\ ~dirty
  /\ Len(reqs) = 1
  /\ "warn" \in reqs[1].cb
  /\ reqs[1].end = "done"
  /\ reqs[1].got = <<"a">>
  /\ \E j \in 1..Len(messages) :
       messages[j] = Msg("assistant", <<"a">>, FALSE, 1)

\* the assistant messages of request i in a list
AssistantOf(list, i) ==
  {list[j] : j \in {m \in 1..Len(list) :
                      list[m].role = "assistant" /\ list[m].tag = i}}

\* C14: once the `done` or `error` frame of a stream has been processed, no
\* later step changes the assistant message of that stream: as long as it is
\* in the list it is the message it was.
C14_ImmutableAfterTerminal ==
  [][\A i \in 1..Len(reqs) :
       (reqs[i].end \in {"done", "error"} /\ AssistantOf(messages, i) # {})
       => AssistantOf(messages', i) \subseteq AssistantOf(messages, i)]_vars

\* C15: a clearMessages call leaves the message list empty, the error none
\* and retryCount 0, and leaves connectionStatus, the in-flight flag, the
\* streaming pointer, the cached payload and the requests as they are.
C15_Clear ==
  [][lastCall' = "clearMessages"
     => (/\ View' = <<>>
         /\ error' = Null
         /\ retryCount' = 0
         /\ connectionStatus' = connectionStatus
         /\ isLoading' = isLoading
         /\ streamingMessageRef' = streamingMessageRef
         /\ lastPayloadRef' = lastPayloadRef
         /\ reqs' = reqs)]_vars

\* C15 witness: clearMessages was called while a request was in flight, on a
\* hook that showed messages and a retry count; list and count are reset,
\* the request, the flag and the cached payload are still there
C15_Witness ==
  /\ lastCall = "clearMessages"
  /\ rMessages # <<>>
  /\ rRetryCount >= 1
  /\ View = <<>>
  /\ retryCount = 0
  /\ error = Null
  /\ InFlight # {}
  /\ isLoading
  /\ connectionStatus = "connecting"
  /\ lastPayloadRef = "p1"

\* C16: a sendMessage call that is turned down (blank text, or a request in
\* flight: nothing is dispatched) changes no session state: messages, error,
\* retryCount, connectionStatus, the in-flight flag, the streaming pointer
\* and the cached payload are what they were.
C16_RejectedSendNoOp ==
  [][(lastCall' = "sendMessage" /\ reqs' = reqs)
     => (/\ messages' = messages
         /\ pending' = pending
         /\ error' = error
         /\ retryCount' = retryCount
         /\ connectionStatus' = connectionStatus
         /\ isLoading' = isLoading
         /\ streamingMessageRef' = streamingMessageRef
         /\ lastPayloadRef' = lastPayloadRef)]_vars

\* ---- vocabulary of the server claims ----

\* the Origin header names an origin and the allow-list does not hold it
UnknownOrigin ==
  /\ sReq.origin \notin {Null, ""}
  /\ sReq.origin \notin AllowedOrigins(sReq.nodeEnv, sReq.envOrigins)

Answered == sPhase # "idle"

\* C17: a request whose Origin header is not empty and not in the allow-list
\* is answered with 403, its body is not read, the upstream is not called
\* and no frame is written; a request without Origin header, or with an
\* empty one, is not answered with 403.
C17_OriginAdmission ==
  Answered =>
    /\ UnknownOrigin
       => (sHttp = 403 /\ ~sBodyRead /\ sUpstream = "none" /\ sFrames = <<>>)
    /\ sReq.origin \in {Null, ""} => sHttp # 403

\* C17 witness: in production a request from a development origin was
\* answered with 403
C17_Witness ==
  /\ sPhase = "responded"
  /\ sHttp = 403
  /\ sReq.nodeEnv = "production"
  /\ sReq.origin = "http://localhost:3000"
  /\ ~sBodyRead

\* C19: of the requests that pass the origin check, one that lacks the
\* user-id header or the tenant-id header is, in production, answered with
\* 401 with its body unread and the upstream not called; outside production
\* a request whose headers are each absent or set is not answered with 401
\* and its body is read.
C19_IdentityAdmission ==
  (Answered /\ ~UnknownOrigin) =>
    /\ (sReq.nodeEnv = "production" /\ Null \in {sReq.hUser, sReq.hTenant})
       => (sHttp = 401 /\ ~sBodyRead /\ sUpstream = "none" /\ sFrames = <<>>)
    /\ (sReq.nodeEnv # "production" /\ "" \notin {sReq.hUser, sReq.hTenant})
       => (sHttp # 401 /\ sBodyRead)

\* C19 witness: in production a request with a user id and without tenant
\* id was answered with 401
C19_Witness ==
  /\ sPhase = "responded"
  /\ sHttp = 401
  /\ sReq.nodeEnv = "production"
  /\ sReq.hUser = "id-1"
  /\ sReq.hTenant = Null
  /\ ~sBodyRead

\* the request passed the origin check and the identity check
Admitted ==
  /\ Answered
  /\ ~UnknownOrigin
  /\ ~IdentityMissing(sReq.hUser, sReq.hTenant, sReq.nodeEnv)

\* C18: an admitted request with a JSON body whose `messages` is absent or
\* empty, or whose last message has empty content, is answered with 400 and
\* the upstream is not called, whatever `provider` the body names.
C18_InputValidation ==
  (Admitted /\ sReq.body.json /\ InvalidMessages(BodyMessages(sReq.body)))
    => (sHttp = 400 /\ sUpstream = "none")

\* the request is over: answered without a stream, or the stream's start()
\* has returned
RequestEnded == sPhase \in {"responded", "ended"}

\* the request did not end with a `done` frame on a 200 response
RequestFailed ==
  \/ sHttp # 200
  \/ sFrames = <<>>
  \/ sFrames[Len(sFrames)].type # "done"

\* C20: a request that is over has written exactly one telemetry record, and
\* the error count of that record is at least 1 exactly when the request
\* failed.
C20_LifecycleTelemetry ==
  RequestEnded =>
    /\ Len(sLogs) = 1
    /\ (sLogs[1].errorCount >= 1) <=> RequestFailed

\* C21: once the client has disconnected, the relay takes no further chunk
\* from the upstream: every step of a cancelled stream leaves the number of
\* consumed upstream chunks unchanged.
C21_CancelStopsUpstream ==
  [][sCancelled => sChunks' = sChunks]_vars

\* the payloads of the `content` frames of a frame sequence, in order
RECURSIVE ContentPayloads(_)
ContentPayloads(fs) ==
  IF fs = <<>> THEN <<>>
  ELSE IF Head(fs).type = "content"
       THEN <<Head(fs).data>> \o ContentPayloads(Tail(fs))
       ELSE ContentPayloads(Tail(fs))

\* the ids of the `content` frames of a frame sequence, in order
RECURSIVE ContentIds(_)
ContentIds(fs) ==
  IF fs = <<>> THEN <<>>
  ELSE IF Head(fs).type = "content"
       THEN <<Head(fs).id>> \o ContentIds(Tail(fs))
       ELSE ContentIds(Tail(fs))

\* C22: while the client is connected, the payloads of the `content` frames
\* written so far are, in order and one frame per fragment, the string
\* fragments taken from the upstream so far (chunks without a string delta
\* add nothing), and the k-th `content` frame has the id `<requestId>-k`.
C22_FragmentRelay ==
  ~sCancelled =>
    /\ ContentPayloads(sFrames) = sFragments
    /\ \A k \in 1..Len(ContentIds(sFrames)) :
         ContentIds(sFrames)[k] = FrameId(ServerRid, k, "n")

\* C22 witness: two fragments were relayed around a chunk without a string
\* delta
C22_Witness ==
  /\ ~sCancelled
  /\ Len(sFragments) = 2
  /\ sChunks = 3
  /\ Len(ContentPayloads(sFrames)) = 2
  /\ sFragments[1] # sFragments[2]

\* the request reached chatCompletionStream and that call threw
OpenFailed ==
  /\ Admitted
  /\ sReq.body.json
  /\ ~sReq.body.isNull
  /\ resolveProvider(sReq.body.provider, sReq.envProvider) # "throws"
  /\ ~InvalidMessages(BodyMessages(sReq.body))
  /\ sReq.upOpen = "throws"

\* C23: a request whose upstream could not be opened is answered with a
\* status outside 2xx and no frame is written for it; and an `error` frame
\* is written only on a 200 response whose stream was opened, after the
\* `metadata` frame.
C23_OpenFailure ==
  /\ OpenFailed
     => (sHttp \notin 200..299 /\ sFrames = <<>> /\ sPhase = "responded")
  /\ \A k \in 1..Len(sFrames) :
       sFrames[k].type = "error"
         => (sHttp = 200 /\ k > 1 /\ sFrames[1].type = "metadata")

\* C23 witness: the upstream call of an admitted, valid request threw and
\* the request was answered with 500
C23_Witness ==
  /\ OpenFailed
  /\ sHttp = 500
  /\ sUpstream = "failed"
  /\ sFrames = <<>>

\* the step is an event of the stream of request i: a read of it, or its end
StreamEvent(i) ==
  /\ i \in 1..Len(reqs)
  /\ reqs[i].phase = "stream"
  /\ lastCall' = "read"
  /\ Len(reqs') = Len(reqs)
  /\ reqs'[i] # reqs[i]

\* C24: while the streaming pointer names a newer request, an event of an
\* older stream that is still open leaves the pointer and the newer
\* request's assistant message as they are.
C24_SupersededStream ==
  [][\A i \in 1..Len(reqs) :
       (StreamEvent(i) /\ ViewRef # NoRef /\ ViewRef.requestId > i)
         => /\ ViewRef' = ViewRef
            /\ AssistantOf(View', ViewRef.requestId)
                 = AssistantOf(View, ViewRef.requestId)]_vars

\* C25: the step on which a dispatched request ends, whatever way it ends,
\* sets isLoading to false; with no request in flight isLoading is false, and
\* once the hook has rendered, the flag sendMessage tests is false as well.
C25_LoadingReleased ==
  /\ [](InFlight = {} => (~isLoading /\ (~dirty => ~rIsLoading)))
  /\ [][\A i \in 1..Len(reqs) :
          (Len(reqs') = Len(reqs) /\ reqs[i].phase # "done"
             /\ reqs'[i].phase = "done")
            => ~isLoading']_vars

\* C25 witness: a request ended by a failed read, the hook has rendered and
\* a sendMessage would be accepted
C25_Witness ==
  /\ reqs # <<>>
  /\ reqs[1].end = "readfail"
  /\ InFlight = {}
  /\ ~dirty
  /\ ~isLoading
  /\ SendAccepted(TurnText)

\* C26: in every state retryCount is at most the effective maximum of
\* retries (options.maxRetries when set and not zero, 3 otherwise).
C26_RetryBound == retryCount <= EffectiveMaxRetries(maxRetries)

\* C27: retryCount changes only by a retry() that was not turned down, which
\* adds 1, and by clearMessages(), which sets it to 0; such a retry() always
\* adds 1, and sendMessage, a response, a read of a stream, the end of a
\* request and a render leave retryCount as it is.
C27_RetryCounterFrame ==
  [][/\ retryCount' # retryCount
          => \/ /\ lastCall' = "retry"
                /\ ~RetryExhausted(rRetryCount, maxRetries)
                /\ retryCount' = retryCount + 1
             \/ /\ lastCall' = "clearMessages"
                /\ retryCount' = 0
     /\ (lastCall' = "retry" /\ ~RetryExhausted(rRetryCount, maxRetries))
          => retryCount' = retryCount + 1
     /\ lastCall' = "clearMessages" => retryCount' = 0
     /\ lastCall' \in {"sendMessage", "respond", "read", "settle", "render"}
          => retryCount' = retryCount]_vars

\* C27 witness: a stream has just ended with `done` and the retries counted
\* before it are still counted
C27_Witness ==
  /\ lastCall = "settle"
  /\ retryCount >= 1
  /\ \E i \in 1..Len(reqs) : reqs[i].end = "done"
  /\ connectionStatus = "disconnected"

\* C28: for each request at most one of onSuccess and onError has been
\* called, and onSuccess has not been called for a request whose stream
\* ended with an `error` frame.
C28_ExclusiveCallbacks ==
  \A i \in 1..Len(reqs) :
    /\ ~({"onSuccess", "onError"} \subseteq reqs[i].cb)
    /\ reqs[i].end = "error" => "onSuccess" \notin reqs[i].cb

\* C29: the step on which the transport of a stream ends before a `done` or
\* `error` frame was decoded leaves the session with connectionStatus
\* `error` or with an error recorded.
C29_TruncatedStream ==
  [][\A i \in 1..Len(reqs) :
       (Len(reqs') = Len(reqs) /\ reqs[i].phase = "stream"
          /\ reqs'[i].end = "eof")
         => (connectionStatus' = "error" \/ error' # Null)]_vars

====
